---- MODULE Spec2Model ----
(***************************************************************************)
(* ZapDrop: the chunked file-transfer protocol of src/src/App.tsx          *)
(* (FileSender, FileReceiver, and the sendFiles loop that drives them).    *)
(*                                                                         *)
(* Bytes are symbolic: the byte at offset p of file f is the token <<f,p>>,*)
(* so a run of bytes is a range [of |-> f, lo |-> a, hi |-> b] (offsets    *)
(* a..b-1) and a payload is a sequence of parts in normal form (no empty   *)
(* range, adjacent ranges of one file merged).  Two payloads are           *)
(* byte-identical exactly when their normal forms are equal.               *)
(***************************************************************************)
EXTENDS Integers, Sequences, FiniteSets, TLC

VARIABLES
    connection,     \* App: the DataConnection the hook exposes, or NoConnection
    files,          \* App: the `files` React state, one entry per file handed to sendFiles
    tasks,          \* one entry per sendFiles invocation: its position and locals
    wire,           \* frames handed to connection.send, in order, tagged with the send that made them
    failures,       \* number of connection.send calls that threw so far
    delivered,      \* number of frames of `wire` the peer's 'data' event has delivered
    metadata,       \* FileReceiver.metadata
    chunks,         \* FileReceiver.chunks (a JS array: a sequence whose empty slots are Hole)
    receivedChunks, \* FileReceiver.receivedChunks
    lastFrame,      \* the frame the data handler handled last
    lastMeta,       \* history: the last well-formed Metadata frame handled
    events,         \* the callbacks the data handler invoked while handling lastFrame, in order
    accepted,       \* history: the Chunk frames stored since the last Metadata frame
    progressLog,    \* history: the values passed to Receiver.onProgress since the last Metadata frame
    startCount,     \* history: onStart invocations since the last Metadata frame
    completions,    \* history: onComplete invocations since the last Metadata frame
    prior,          \* history: whether the receiver was Collecting, and its received-count, before lastFrame
    soundEnabled,   \* App: the soundEnabled state
    receivers,      \* App: the FileReceivers whose 'data' listener is registered on the connection
    faults,         \* history: onError invocations since the last well-formed Metadata frame (error-case environment)
    notified,       \* history: onComplete invocations, over all listeners, for the last 'data' event
    status,         \* usePeer: the status state
    error,          \* usePeer: the error state, a message or NoError
    reconnectAttempts, \* usePeer: reconnectAttempts.current
    peer,           \* usePeer: how many Peers initializePeer has made; peerRef.current is the last
    link,           \* the current Peer's link to the signalling server
    timers,         \* pending setTimeout(initializePeer, 2000) callbacks
    conns,          \* the data connections: state and the Peer each belongs to
    lastEvent       \* the event or call the hook handled last

senderVars == <<connection, files, tasks, wire, failures>>
receiverVars == <<metadata, chunks, receivedChunks, lastFrame, lastMeta, events,
                  accepted, progressLog, startCount, completions, prior>>
peerVars == <<status, error, reconnectAttempts, peer, link, timers, conns, lastEvent>>
appVars == <<soundEnabled, receivers, notified, faults, peerVars>>
vars == <<connection, files, tasks, wire, failures, delivered, metadata, chunks,
          receivedChunks, lastFrame, lastMeta, events, accepted, progressLog,
          startCount, completions, prior, soundEnabled, receivers, notified, faults,
          status, error, reconnectAttempts, peer, link, timers, conns, lastEvent>>

----------------------------------------------------------------------------
(* Bounds of the model *)

\* largest number of chunks of a file a sender is given
MaxChunks == 2
\* largest number of files in one sendFiles call
MaxBatch == 2
\* largest number of connection.send calls that throw in one run
MaxFailures == 1
\* largest number of Chunk frames the receiver is fed per Metadata frame
MaxRecv == 3
\* largest number of onComplete invocations followed per Metadata frame
MaxCompletions == 2
\* largest number of onError invocations per Metadata frame in the error cases
MaxFaults == 1
\* largest number of Peers initializePeer makes in one run
MaxPeers == 2
\* largest number of pending re-initialization timers
MaxTimers == 1
\* largest number of FileReceivers constructed on one connection
MaxReceivers == 2
\* number of chunks of the longest file of the runs that reach the second pause
LongChunks == 12

----------------------------------------------------------------------------
(* Program constants and pure helpers *)

CHUNK_SIZE == 16 * 1024

Min(a, b) == IF a < b THEN a ELSE b

\* Math.ceil(a / b) for integers a >= 0, b > 0
Ceil(a, b) == (a + b - 1) \div b

\* Math.round((num / den) * 100) for integers, den # 0: round half up.
\* (The double-precision result equals this exact value for every den < 40,
\* which covers every totalChunks of the model; it first differs at 23/40.)
RoundPct(num, den) ==
    IF den > 0 THEN (200 * num + den) \div (2 * den)
               ELSE (200 * (0 - num) + (0 - den)) \div (2 * (0 - den))

----------------------------------------------------------------------------
(* Files and frames *)

NoConnection == "none"

\* A File: name, MIME type and size; its bytes are the tokens <<file, 0>> .. <<file, size-1>>.
FileOfSize(s) ==
    [name |-> IF s % 2 = 0 THEN "a.txt" ELSE "b.bin",
     type |-> IF s % 2 = 0 THEN "text/plain" ELSE "",
     size |-> s]

\* The files of the model: empty, one byte, and around every multiple of
\* CHUNK_SIZE up to MaxChunks chunks.
FileSizes ==
    {0} \cup {k * CHUNK_SIZE + r : k \in 0..(MaxChunks - 1), r \in {1, CHUNK_SIZE}}

Files == {FileOfSize(s) : s \in FileSizes}

\* files whose last chunk has index 9, 10 (a pause before Complete) and 11
LongFiles == {FileOfSize(n * CHUNK_SIZE) : n \in (LongChunks - 2)..LongChunks}

\* file.slice(start, end) followed by arrayBuffer(): the bytes start..end-1 of f
Slice(f, start, end) == [of |-> f, lo |-> start, hi |-> end]

\* variant with a slip: Math.floor(size / CHUNK_SIZE) + 1: one chunk too many at every multiple
TotalChunks_FloorPlusOne(f) == (f.size \div CHUNK_SIZE) + 1

TotalChunks(f) == Ceil(f.size, CHUNK_SIZE)

MetadataFrame(f) ==
    [type |-> "metadata", fileName |-> f.name, fileType |-> f.type,
     fileSize |-> f.size, totalChunks |-> TotalChunks(f)]

\* variant with a slip: the end of the slice is not clamped to the file size
ChunkData_NoClamp(f, i) ==
    Slice(f, i * CHUNK_SIZE, i * CHUNK_SIZE + CHUNK_SIZE)

ChunkData(f, i) ==
    LET start == i * CHUNK_SIZE
        end == Min(start + CHUNK_SIZE, f.size)
    IN  Slice(f, start, end)

ChunkFrame(f, i) == [type |-> "chunk", index |-> i, data |-> ChunkData(f, i)]

\* variant with a slip: the sender names the last frame differently from the receiver
CompleteFrame_Misspelt == [type |-> "completed"]

CompleteFrame == [type |-> "complete"]

\* variant with a slip: the percentage of the chunks before this one
SenderProgress_BeforeThisChunk(i, totalChunks) == RoundPct(i, totalChunks)

SenderProgress(i, totalChunks) == RoundPct(i + 1, totalChunks)

\* variant with a slip: the pause comes after every tenth chunk counted from one
Paces_CountsFromOne(i) == (i + 1) % 10 = 0

\* the sender pauses after the chunks with these indices
Paces(i) == i % 10 = 0

----------------------------------------------------------------------------
(* App.sendFiles and FileSender.send.  A task is one sendFiles invocation;   *)
(* it runs atomically from one await to the next.                            *)
(*   pc = "idle"  sendFiles not invoked yet                                  *)
(*        "read"  suspended at  await chunk.arrayBuffer()  for chunk i       *)
(*        "pace"  suspended at  await new Promise(setTimeout 1)              *)
(*        "sent"  send() has settled (outcome), sendFiles suspended at       *)
(*                await sender.send()                                        *)
(*        "done"  sendFiles returned                                         *)
(* sprog is the history of the values the current sender passed to           *)
(* onProgress.                                                               *)

Tasks == {1, 2}

IdleTask(list) ==
    [pc |-> "idle", fileList |-> list, base |-> 0, k |-> 0, i |-> 0,
     outcome |-> "none", sprog |-> <<>>]

\* sequences of 1..n files
Batches(S, n) == UNION {[1..m -> S] : m \in 1..n}

Tagged(fr, t, k) == [frame |-> fr, task |-> t, k |-> k]

\* variant with a slip: the update is applied to every entry of the list
SetStatus_MarksAll(fs, fileIndex, st) ==
    [j \in 1..Len(fs) |-> [fs[j] EXCEPT !.status = st]]

\* setFiles(prev => prev.map((f, idx) => idx === fileIndex ? { ...f, ...upd } : f))
SetStatus(fs, fileIndex, st) ==
    [j \in 1..Len(fs) |-> IF j = fileIndex + 1 THEN [fs[j] EXCEPT !.status = st] ELSE fs[j]]

SetProgress(fs, fileIndex, p) ==
    [j \in 1..Len(fs) |-> IF j = fileIndex + 1 THEN [fs[j] EXCEPT !.progress = p] ELSE fs[j]]

SetComplete(fs, fileIndex) ==
    [j \in 1..Len(fs) |->
        IF j = fileIndex + 1 THEN [fs[j] EXCEPT !.status = "complete", !.progress = 100]
        ELSE fs[j]]

\* variant with a slip: a throw of the last connection.send is swallowed
Finish_SwallowsError(tk, t, throws, w) ==
    IF throws
    THEN [task |-> [tk EXCEPT !.pc = "sent", !.outcome = "resolved"], wire |-> w]
    ELSE [task |-> [tk EXCEPT !.pc = "sent", !.outcome = "resolved"],
          wire |-> Append(w, Tagged(CompleteFrame, t, tk.k))]

\* The end of send(): the loop is over, the Complete frame is handed to the
\* channel and send() resolves; if connection.send throws, send() rejects.
Finish(tk, t, throws, w) ==
    IF throws
    THEN [task |-> [tk EXCEPT !.pc = "sent", !.outcome = "rejected"], wire |-> w]
    ELSE [task |-> [tk EXCEPT !.pc = "sent", !.outcome = "resolved"],
          wire |-> Append(w, Tagged(CompleteFrame, t, tk.k))]

\* variant with a slip: the loop condition is i + 1 < totalChunks: the last chunk is skipped
LoopHead_SkipsLast(tk, t, next, throws, w) ==
    IF next + 1 < TotalChunks(tk.fileList[tk.k])
    THEN [task |-> [tk EXCEPT !.pc = "read", !.i = next], wire |-> w]
    ELSE Finish([tk EXCEPT !.i = next], t, throws, w)

\* The head of the chunk loop with i = next: either the next chunk's bytes are
\* awaited, or the loop is over.
LoopHead(tk, t, next, throws, w) ==
    IF next < TotalChunks(tk.fileList[tk.k])
    THEN [task |-> [tk EXCEPT !.pc = "read", !.i = next], wire |-> w]
    ELSE Finish([tk EXCEPT !.i = next], t, throws, w)

\* One iteration of the sendFiles loop up to its first await: mark the file
\* 'sending', construct the sender, call send(), which hands the Metadata frame
\* to the channel and enters the chunk loop.  failAt = 1: the Metadata send
\* throws; failAt = 2: the Complete send (of a file without chunks) throws.
StartFile(tk, t, k, failAt, fs, w) ==
    LET f == tk.fileList[k]
        fs1 == SetStatus(fs, tk.base + (k - 1), "sending")
        tk1 == [tk EXCEPT !.k = k, !.i = 0, !.outcome = "none", !.sprog = <<>>]
    IN  IF failAt = 1
        THEN [task |-> [tk1 EXCEPT !.pc = "sent", !.outcome = "rejected"],
              files |-> fs1, wire |-> w]
        ELSE LET r == LoopHead(tk1, t, 0, failAt = 2,
                               Append(w, Tagged(MetadataFrame(f), t, k)))
             IN  [task |-> r.task, files |-> fs1, wire |-> r.wire]

\* number of connection.send calls StartFile makes for file f
StartSends(f) == IF TotalChunks(f) = 0 THEN 2 ELSE 1

\* failAt names the connection.send call of the step that throws (0: none)
FailOk(failAt, sends) ==
    /\ failAt \in 0..sends
    /\ failAt > 0 => failures < MaxFailures

\* handleDrop / handleFileSelect -> sendFiles(fileList), up to the first await
HandleDrop(t) ==
    /\ tasks[t].pc = "idle"
    /\ Len(tasks[t].fileList) > 0
    /\ IF connection = NoConnection
       THEN /\ tasks' = [tasks EXCEPT ![t].pc = "done"]
            /\ UNCHANGED <<files, wire, failures>>
       ELSE \E failAt \in 0..2 :
            /\ FailOk(failAt, StartSends(tasks[t].fileList[1]))
            /\ LET list == tasks[t].fileList
                   newFiles == [j \in 1..Len(list) |->
                                   [file |-> list[j], progress |-> 0, status |-> "pending"]]
                   tk == [tasks[t] EXCEPT !.base = Len(files)]
                   r == StartFile(tk, t, 1, failAt, files \o newFiles, wire)
               IN  /\ tasks' = [tasks EXCEPT ![t] = r.task]
                   /\ files' = r.files
                   /\ wire' = r.wire
                   /\ failures' = failures + (IF failAt > 0 THEN 1 ELSE 0)
    /\ UNCHANGED <<connection, delivered, receiverVars, appVars>>

\* number of connection.send calls the step after chunk i's bytes arrive makes
ChunkSends(f, i) == IF ~Paces(i) /\ i + 1 >= TotalChunks(f) THEN 2 ELSE 1

\* await chunk.arrayBuffer() resumes: the Chunk frame is handed to the channel,
\* onProgress is invoked, then the sender pauses or goes round the loop
ChunkRead(t) ==
    /\ tasks[t].pc = "read"
    /\ \E failAt \in 0..2 :
         LET tk == tasks[t]
             f == tk.fileList[tk.k]
             fileIndex == tk.base + (tk.k - 1)
         IN  /\ FailOk(failAt, ChunkSends(f, tk.i))
             /\ failures' = failures + (IF failAt > 0 THEN 1 ELSE 0)
             /\ IF failAt = 1
                THEN /\ tasks' = [tasks EXCEPT ![t].pc = "sent", ![t].outcome = "rejected"]
                     /\ UNCHANGED <<files, wire>>
                ELSE LET w1 == Append(wire, Tagged(ChunkFrame(f, tk.i), t, tk.k))
                         progress == SenderProgress(tk.i, TotalChunks(f))
                         tk1 == [tk EXCEPT !.sprog = Append(@, progress)]
                         r == IF Paces(tk.i)
                              THEN [task |-> [tk1 EXCEPT !.pc = "pace"], wire |-> w1]
                              ELSE LoopHead(tk1, t, tk.i + 1, failAt = 2, w1)
                     IN  /\ files' = SetProgress(files, fileIndex, progress)
                         /\ tasks' = [tasks EXCEPT ![t] = r.task]
                         /\ wire' = r.wire
    /\ UNCHANGED <<connection, delivered, receiverVars, appVars>>

\* variant with a slip: the 1 ms timer also drops the chunks of a session under way
PaceDone_ExpiresSession(t) ==
    /\ tasks[t].pc = "pace"
    /\ \E failAt \in 0..1 :
         LET tk == tasks[t]
             f == tk.fileList[tk.k]
             r == LoopHead(tk, t, tk.i + 1, failAt = 1, wire)
         IN  /\ FailOk(failAt, IF tk.i + 1 >= TotalChunks(f) THEN 1 ELSE 0)
             /\ failures' = failures + (IF failAt > 0 THEN 1 ELSE 0)
             /\ tasks' = [tasks EXCEPT ![t] = r.task]
             /\ wire' = r.wire
    /\ chunks' = <<>>
    /\ receivedChunks' = 0
    /\ UNCHANGED <<connection, files, delivered, metadata, events, lastFrame, lastMeta,
                   accepted, progressLog, startCount, completions, prior, appVars>>

\* the 1 ms timer fires: i++ and back to the loop head
PaceDone(t) ==
    /\ tasks[t].pc = "pace"
    /\ \E failAt \in 0..1 :
         LET tk == tasks[t]
             f == tk.fileList[tk.k]
             r == LoopHead(tk, t, tk.i + 1, failAt = 1, wire)
         IN  /\ FailOk(failAt, IF tk.i + 1 >= TotalChunks(f) THEN 1 ELSE 0)
             /\ failures' = failures + (IF failAt > 0 THEN 1 ELSE 0)
             /\ tasks' = [tasks EXCEPT ![t] = r.task]
             /\ wire' = r.wire
    /\ UNCHANGED <<connection, files, delivered, receiverVars, appVars>>

\* await sender.send() resumes in sendFiles: the file is marked 'complete' or
\* 'error', and the loop goes on to the next file of the list
SendSettled(t) ==
    /\ tasks[t].pc = "sent"
    /\ LET tk == tasks[t]
           fileIndex == tk.base + (tk.k - 1)
           fs1 == IF tk.outcome = "resolved" THEN SetComplete(files, fileIndex)
                  ELSE SetStatus(files, fileIndex, "error")
       IN  IF tk.k < Len(tk.fileList)
           THEN \E failAt \in 0..2 :
                /\ FailOk(failAt, StartSends(tk.fileList[tk.k + 1]))
                /\ LET r == StartFile(tk, t, tk.k + 1, failAt, fs1, wire)
                   IN  /\ tasks' = [tasks EXCEPT ![t] = r.task]
                       /\ files' = r.files
                       /\ wire' = r.wire
                       /\ failures' = failures + (IF failAt > 0 THEN 1 ELSE 0)
           ELSE /\ tasks' = [tasks EXCEPT ![t].pc = "done"]
                /\ files' = fs1
                /\ UNCHANGED <<wire, failures>>
    /\ UNCHANGED <<connection, delivered, receiverVars, appVars>>

SenderStep == \E t \in Tasks : HandleDrop(t) \/ ChunkRead(t) \/ PaceDone(t) \/ SendSettled(t)

----------------------------------------------------------------------------
(* FileReceiver *)

NoMetadata == [type |-> "null"]
Hole == [hole |-> TRUE]
NoFrame == [type |-> "none"]

\* inbound values that are not frames of the protocol
NullFrame == [malformed |-> TRUE]             \* null / undefined: reading .type throws
OtherFrame == [type |-> "ping"]               \* a well-formed message of another kind
BadMetadataFrame ==                           \* new Array(-1) throws a RangeError
    [type |-> "metadata", fileName |-> "x", fileType |-> "", fileSize |-> 0,
     totalChunks |-> 0 - 1]

\* a part of a Blob made from an empty or undefined array slot: the 9 bytes of
\* the text "undefined"
UndefinedText == [of |-> [name |-> "undefined", type |-> "", size |-> 9], lo |-> 0, hi |-> 9]

\* Math.round(x) of a division by zero, above every finite percentage of the model
Infinity == 100 * (MaxRecv + 2)

\* new Array(n)
NewArray(n) == [j \in 1..n |-> Hole]

\* variant with a slip: arr.push(data): the payload goes after the last slot
StoreAt_Push(arr, index, data) == Append(arr, data)

\* variant with a slip: arr[index + 1] = data
StoreAt_OffByOne(arr, index, data) ==
    [j \in 1..(IF index + 2 > Len(arr) THEN index + 2 ELSE Len(arr)) |->
        IF j = index + 2 THEN data ELSE IF j <= Len(arr) THEN arr[j] ELSE Hole]

\* variant with a slip: a slot already filled is not written again
StoreAt_KeepsFirst(arr, index, data) ==
    IF index < Len(arr)
    THEN IF arr[index + 1] = Hole THEN [arr EXCEPT ![index + 1] = data] ELSE arr
    ELSE [j \in 1..(index + 1) |->
            IF j <= Len(arr) THEN arr[j] ELSE IF j = index + 1 THEN data ELSE Hole]

\* arr[index] = data  (a JS array grows when index >= length)
StoreAt(arr, index, data) ==
    IF index < Len(arr)
    THEN [arr EXCEPT ![index + 1] = data]
    ELSE [j \in 1..(index + 1) |->
            IF j <= Len(arr) THEN arr[j] ELSE IF j = index + 1 THEN data ELSE Hole]

\* the bytes of parts appended to the bytes so far, in normal form
AppendBytes(bytes, part) ==
    IF part.hi <= part.lo THEN bytes
    ELSE IF /\ Len(bytes) > 0
            /\ bytes[Len(bytes)].of = part.of
            /\ bytes[Len(bytes)].hi = part.lo
         THEN [bytes EXCEPT ![Len(bytes)].hi = part.hi]
         ELSE Append(bytes, part)

RECURSIVE BytesUpTo(_, _)
BytesUpTo(arr, n) ==
    IF n = 0 THEN <<>>
    ELSE AppendBytes(BytesUpTo(arr, n - 1),
                     IF arr[n] = Hole THEN UndefinedText ELSE arr[n])

\* new Blob(arr, { type })
Blob(arr, type) == [bytes |-> BytesUpTo(arr, Len(arr)), type |-> type]

RECURSIVE ByteLength(_)
ByteLength(bytes) ==
    IF bytes = <<>> THEN 0
    ELSE (bytes[1].hi - bytes[1].lo) + ByteLength(Tail(bytes))

\* variant with a slip: the percentage is computed before the count is incremented
ReceiverProgress_BeforeIncrement(received, totalChunks) ==
    IF totalChunks = 0 THEN Infinity ELSE RoundPct(received - 1, totalChunks)

ReceiverProgress(received, totalChunks) ==
    IF totalChunks = 0 THEN Infinity ELSE RoundPct(received, totalChunks)

OnStart == [cb |-> "onStart"]
OnProgress(p) == [cb |-> "onProgress", value |-> p]
OnComplete(blob, fileName, fileType) ==
    [cb |-> "onComplete", blob |-> blob, fileName |-> fileName, fileType |-> fileType]
OnError == [cb |-> "onError"]

\* the catch clause: a throwing callback is followed by onError
Caught(throws) == IF throws THEN <<OnError>> ELSE <<>>

\* variant with a slip: the catch block resets the session
HandleMalformed_Resets(st) ==
    [metadata |-> NoMetadata, chunks |-> <<>>, receivedChunks |-> 0,
     events |-> <<OnError>>]

\* message.type cannot be read (null, undefined): the TypeError is caught
HandleMalformed(st) ==
    [metadata |-> st.metadata, chunks |-> st.chunks,
     receivedChunks |-> st.receivedChunks, events |-> <<OnError>>]

\* variant with a slip: the session is started without telling the caller
HandleMetadata_Silent(st, frame, throws) ==
    [metadata |-> frame, chunks |-> NewArray(frame.totalChunks),
     receivedChunks |-> 0, events |-> <<>>]

\* variant with a slip: the slots of the session under way are kept
HandleMetadata_KeepsChunks(st, frame, throws) ==
    [metadata |-> frame,
     chunks |-> IF st.metadata = NoMetadata THEN NewArray(frame.totalChunks) ELSE st.chunks,
     receivedChunks |-> 0, events |-> <<OnStart>> \o Caught(throws)]

\* message.type === 'metadata'; new Array throws a RangeError for a length
\* that is no array length, after this.metadata is assigned
HandleMetadata(st, frame, throws) ==
    IF frame.totalChunks < 0
    THEN [metadata |-> frame, chunks |-> st.chunks,
          receivedChunks |-> st.receivedChunks, events |-> <<OnError>>]
    ELSE [metadata |-> frame, chunks |-> NewArray(frame.totalChunks),
          receivedChunks |-> 0, events |-> <<OnStart>> \o Caught(throws)]

\* message.type === 'chunk' && this.metadata
HandleChunk(st, frame, throws) ==
    LET received == st.receivedChunks + 1
        progress == ReceiverProgress(received, st.metadata.totalChunks)
    IN  [metadata |-> st.metadata,
         chunks |-> StoreAt(st.chunks, frame.index, frame.data),
         receivedChunks |-> received,
         events |-> <<OnProgress(progress)>> \o Caught(throws)]

\* message.type === 'complete' && this.metadata; the reset follows the
\* onComplete call inside the try block
HandleComplete(st, throws) ==
    LET blob == Blob(st.chunks, st.metadata.fileType)
        call == OnComplete(blob, st.metadata.fileName, st.metadata.fileType)
    IN  IF throws
        THEN [metadata |-> st.metadata, chunks |-> st.chunks,
              receivedChunks |-> st.receivedChunks, events |-> <<call, OnError>>]
        ELSE [metadata |-> NoMetadata, chunks |-> <<>>, receivedChunks |-> 0,
              events |-> <<call>>]

\* variant with a slip: a frame no branch takes is reported as an error
Ignore_ReportsError(st) ==
    [metadata |-> st.metadata, chunks |-> st.chunks,
     receivedChunks |-> st.receivedChunks, events |-> <<OnError>>]

\* variant with a slip: a frame no branch takes ends the session
Ignore_Resets(st) ==
    [metadata |-> NoMetadata, chunks |-> <<>>, receivedChunks |-> 0, events |-> <<>>]

\* no branch of the handler is taken
Ignore(st) ==
    [metadata |-> st.metadata, chunks |-> st.chunks,
     receivedChunks |-> st.receivedChunks, events |-> <<>>]

\* The 'data' handler on receiver state st = [metadata, chunks, receivedChunks]:
\* the state after it and the callbacks it invokes, in order.  `throws` says
\* whether the caller's onStart / onProgress / onComplete throws.
Handle(st, frame, throws) ==
    IF frame = NullFrame THEN HandleMalformed(st)
    ELSE IF frame.type = "metadata" THEN HandleMetadata(st, frame, throws)
    ELSE IF frame.type = "chunk" /\ st.metadata # NoMetadata
    THEN HandleChunk(st, frame, throws)
    ELSE IF frame.type = "complete" /\ st.metadata # NoMetadata
    THEN HandleComplete(st, throws)
    ELSE Ignore(st)

IsMetadata(frame) == frame # NullFrame /\ frame.type = "metadata"

Collecting == metadata # NoMetadata

IsChunk(frame) == frame # NullFrame /\ frame.type = "chunk"

Invoked(evs, cb) == Len(SelectSeq(evs, LAMBDA e : e.cb = cb))

\* the environment stops feeding frames the bounds of the model exclude
WithinBounds(frame) ==
    /\ frame # NullFrame /\ frame.type = "chunk" /\ metadata # NoMetadata
          => Len(accepted) < MaxRecv
    /\ frame # NullFrame /\ frame.type = "complete" /\ metadata # NoMetadata
          => completions < MaxCompletions

\* connection.on('data', ...) fires with `frame`
Receive(frame, throws) ==
    LET r == Handle([metadata |-> metadata, chunks |-> chunks,
                     receivedChunks |-> receivedChunks], frame, throws)
        isMeta == frame # NullFrame /\ frame.type = "metadata" /\ frame.totalChunks >= 0
        stored == frame # NullFrame /\ frame.type = "chunk" /\ metadata # NoMetadata
    IN  /\ metadata' = r.metadata
        /\ chunks' = r.chunks
        /\ receivedChunks' = r.receivedChunks
        /\ events' = r.events
        /\ lastFrame' = frame
        /\ lastMeta' = IF isMeta THEN frame ELSE lastMeta
        /\ accepted' = IF isMeta THEN <<>>
                       ELSE IF stored THEN Append(accepted, frame) ELSE accepted
        /\ progressLog' =
               IF isMeta THEN <<>>
               ELSE IF stored THEN Append(progressLog, r.events[1].value)
               ELSE progressLog
        /\ startCount' = IF isMeta THEN Invoked(r.events, "onStart") ELSE startCount
        /\ completions' = IF isMeta THEN 0
                          ELSE completions + Invoked(r.events, "onComplete")
        /\ prior' = [collecting |-> metadata # NoMetadata, received |-> receivedChunks]

\* the files whose frames the receiver is fed: the empty file and the two
\* largest of the model
ReceivedFiles ==
    {FileOfSize(0), FileOfSize((MaxChunks - 1) * CHUNK_SIZE + 1),
     FileOfSize(MaxChunks * CHUNK_SIZE)}

\* every value the model feeds the data handler
InboundFrames ==
    {NullFrame, OtherFrame, CompleteFrame}
        \cup {MetadataFrame(f) : f \in ReceivedFiles}
        \cup UNION {{ChunkFrame(f, i) : i \in 0..(TotalChunks(f) - 1)} : f \in ReceivedFiles}

\* a FileReceiver as constructed: fields 609-611
FreshReceiver ==
    [metadata |-> NoMetadata, chunks |-> <<>>, receivedChunks |-> 0, events |-> <<>>]

\* a frame arrives at the receiver, whatever the peer sent
Inject ==
    /\ \E frame \in InboundFrames, throws \in BOOLEAN :
          WithinBounds(frame) /\ Receive(frame, throws)
    /\ UNCHANGED <<senderVars, delivered, appVars>>

\* FileReceiver's fields after construction, and empty histories
ReceiverInit ==
    /\ metadata = NoMetadata
    /\ chunks = <<>>
    /\ receivedChunks = 0
    /\ lastFrame = NoFrame
    /\ lastMeta = NoMetadata
    /\ events = <<>>
    /\ accepted = <<>>
    /\ progressLog = <<>>
    /\ startCount = 0
    /\ completions = 0
    /\ prior = [collecting |-> FALSE, received |-> 0]

----------------------------------------------------------------------------
(* usePeer *)

\* const maxReconnectAttempts = 3
maxReconnectAttempts == 3

\* the error state's null
NoError == "null"

\* the data connections the environment can offer or the user can dial
Conns == {"conn", "conn2"}

\* a data connection nobody has made yet
NoConn == [state |-> "none", peer |-> 0, outgoing |-> FALSE]

\* the guard of both reconnect branches: reconnectAttempts.current < maxReconnectAttempts
CanReconnect_Inclusive(n) == n <= maxReconnectAttempts

CanReconnect(n) == n < maxReconnectAttempts

\* err.message || 'Connection failed'
MessageOf(message) == IF message = "" THEN "Connection failed" ELSE message

\* the messages a PeerJS error can carry
Messages == {"", "Lost connection to server."}

\* initializePeer: the Peer held is destroyed and a new one is made
InitializePeer ==
    /\ peer < MaxPeers
    /\ peer' = peer + 1
    /\ link' = "connecting"

\* the hook's state in a run that never leaves an established session
PeerQuiet ==
    /\ status = IF connection = NoConnection THEN "ready" ELSE "connected"
    /\ error = NoError
    /\ reconnectAttempts = 0
    /\ peer = 1
    /\ link = "open"
    /\ timers = 0
    /\ conns = [c \in Conns |-> IF c = connection
                                THEN [state |-> "open", peer |-> 1, outgoing |-> FALSE]
                                ELSE NoConn]
    /\ lastEvent = "conn-open"

transferVars == <<files, tasks, wire, failures, delivered, receiverVars,
                  soundEnabled, receivers, notified, faults>>

\* peer.on('open')
PeerOpen ==
    /\ link = "connecting"
    /\ link' = "open"
    /\ status' = "ready"
    /\ error' = NoError
    /\ reconnectAttempts' = 0
    /\ lastEvent' = "open"
    /\ UNCHANGED <<connection, peer, timers, conns, transferVars>>

\* peer.on('error') with err.type === 'unavailable-id'
PeerErrorUnavailableId ==
    /\ link = "connecting"
    /\ InitializePeer
    /\ lastEvent' = "unavailable-id"
    /\ UNCHANGED <<connection, status, error, reconnectAttempts, timers, conns, transferVars>>

\* peer.on('error') with any other type
PeerError(message) ==
    /\ lastEvent' = "error"
    /\ IF CanReconnect(reconnectAttempts)
       THEN /\ timers < MaxTimers
            /\ reconnectAttempts' = reconnectAttempts + 1
            /\ status' = "reconnecting"
            /\ timers' = timers + 1
            /\ UNCHANGED error
       ELSE /\ error' = MessageOf(message)
            /\ status' = "error"
            /\ UNCHANGED <<reconnectAttempts, timers>>
    /\ UNCHANGED <<connection, peer, link, conns, transferVars>>

\* peer.on('disconnected')
PeerDisconnected ==
    /\ link \in {"open", "connecting"}
    /\ lastEvent' = "disconnected"
    /\ IF CanReconnect(reconnectAttempts)
       THEN /\ reconnectAttempts' = reconnectAttempts + 1
            /\ status' = "reconnecting"
            /\ link' = "connecting"
       ELSE /\ link' = "disconnected"
            /\ UNCHANGED <<reconnectAttempts, status>>
    /\ UNCHANGED <<connection, error, peer, timers, conns, transferVars>>

\* the callback of setTimeout(initializePeer, 2000)
TimerFires ==
    /\ timers > 0
    /\ timers' = timers - 1
    /\ InitializePeer
    /\ lastEvent' = "timer"
    /\ UNCHANGED <<connection, status, error, reconnectAttempts, conns, transferVars>>

\* retry
Retry ==
    /\ reconnectAttempts' = 0
    /\ InitializePeer
    /\ lastEvent' = "retry"
    /\ UNCHANGED <<connection, status, error, timers, conns, transferVars>>

\* connectToPeer; a Peer that is not connected to the server yields no connection
ConnectToPeer(c) ==
    /\ conns[c].state = "none"
    /\ conns' = IF link = "open"
                THEN [conns EXCEPT ![c] = [state |-> "pending", peer |-> peer, outgoing |-> TRUE]]
                ELSE conns
    /\ status' = "connecting"
    /\ error' = NoError
    /\ lastEvent' = "connectToPeer"
    /\ UNCHANGED <<connection, reconnectAttempts, peer, link, timers, transferVars>>

\* peer.on('connection')
IncomingConnection(c) ==
    /\ link = "open"
    /\ conns[c].state = "none"
    /\ conns' = [conns EXCEPT ![c] = [state |-> "pending", peer |-> peer, outgoing |-> FALSE]]
    /\ status' = "connecting"
    /\ lastEvent' = "connection"
    /\ UNCHANGED <<connection, error, reconnectAttempts, peer, link, timers, transferVars>>

\* conn.on('open'), of an incoming or an outgoing connection
ConnOpen(c) ==
    /\ conns[c].state = "pending"
    /\ conns[c].peer = peer
    /\ conns' = [conns EXCEPT ![c].state = "open"]
    /\ connection' = c
    /\ status' = "connected"
    /\ lastEvent' = "conn-open"
    /\ UNCHANGED <<error, reconnectAttempts, peer, link, timers, transferVars>>

\* conn.on('close')
ConnClose(c) ==
    /\ conns[c].state = "open"
    /\ conns' = [conns EXCEPT ![c].state = "closed"]
    /\ connection' = NoConnection
    /\ status' = "ready"
    /\ lastEvent' = "conn-close"
    /\ UNCHANGED <<error, reconnectAttempts, peer, link, timers, transferVars>>

\* conn.on('error')
ConnError(c) ==
    /\ conns[c].state \in {"pending", "open"}
    /\ error' = IF conns[c].outgoing THEN "Failed to connect" ELSE "Connection lost"
    /\ status' = "error"
    /\ lastEvent' = "conn-error"
    /\ UNCHANGED <<connection, reconnectAttempts, peer, link, timers, conns, transferVars>>

----------------------------------------------------------------------------
(* Specifications *)

SenderInit ==
    /\ files = <<>>
    /\ wire = <<>>
    /\ failures = 0
    /\ delivered = 0
    /\ soundEnabled = TRUE
    /\ receivers = <<>>
    /\ notified = 0
    /\ faults = 0
    /\ PeerQuiet

\* One sendFiles invocation with a list of up to MaxBatch files.
InitSender ==
    /\ connection \in {NoConnection, "conn"}
    /\ \E list \in Batches(Files, MaxBatch) :
         tasks = [t \in Tasks |-> IF t = 1 THEN IdleTask(list) ELSE IdleTask(<<>>)]
    /\ SenderInit
    /\ ReceiverInit

SpecSender == InitSender /\ [][SenderStep]_vars

\* A receiver fed any sequence of inbound values; nothing is sent.
InitReceiver ==
    /\ connection = "conn"
    /\ tasks = [t \in Tasks |-> IdleTask(<<>>)]
    /\ SenderInit
    /\ ReceiverInit

SpecReceiver == InitReceiver /\ [][Inject]_vars

\* Two sendFiles invocations (two drops) on one connection, one file each.
InitApp ==
    /\ connection = "conn"
    /\ \E l1, l2 \in Batches({FileOfSize(0), FileOfSize(CHUNK_SIZE + 1)}, 1) :
         tasks = [t \in Tasks |-> IF t = 1 THEN IdleTask(l1) ELSE IdleTask(l2)]
    /\ SenderInit
    /\ ReceiverInit

SpecApp == InitApp /\ [][SenderStep]_vars

\* the channel delivers the next frame, in send order, to the peer's receiver,
\* whose callbacks (the App's) do not throw
Deliver ==
    /\ delivered < Len(wire)
    /\ Receive(wire[delivered + 1].frame, FALSE)
    /\ delivered' = delivered + 1
    /\ UNCHANGED <<senderVars, appVars>>

\* the files of the model and those of one and two chunks more
LiveFiles ==
    Files \cup {FileOfSize(k * CHUNK_SIZE + r) :
                    k \in MaxChunks..(MaxChunks + 1), r \in {1, CHUNK_SIZE}}

\* a step of the sender on a channel that accepts every send
ReliableStep == SenderStep /\ failures' = failures

\* One send() of one file over a reliable, ordered channel to a FileReceiver.
InitLive ==
    /\ connection = "conn"
    /\ \E list \in Batches(LiveFiles, 1) :
         tasks = [t \in Tasks |-> IF t = 1 THEN IdleTask(list) ELSE IdleTask(<<>>)]
    /\ SenderInit
    /\ ReceiverInit

\* The event loop runs every continuation and timer that is ready, and the
\* channel delivers every frame it was handed: weak fairness on both.
SpecLive ==
    /\ InitLive
    /\ [][ReliableStep \/ Deliver]_vars
    /\ WF_vars(ReliableStep)
    /\ WF_vars(Deliver)

\* the files of the paced runs: one chunk (a pause before Complete), and the
\* long ones
PacedFiles == {FileOfSize(1)} \cup LongFiles

\* One sendFiles invocation with one file, long enough to reach the pause
\* after chunk 10.
InitPaced ==
    /\ connection = "conn"
    /\ \E list \in Batches(PacedFiles, 1) :
         tasks = [t \in Tasks |-> IF t = 1 THEN IdleTask(list) ELSE IdleTask(<<>>)]
    /\ SenderInit
    /\ ReceiverInit

SpecPaced == InitPaced /\ [][SenderStep]_vars

\* the frames of the error cases: one two-chunk file's transfer, the values
\* whose handling throws, and Complete
MalformedInbound ==
    LET f == FileOfSize(MaxChunks * CHUNK_SIZE)
    IN  {NullFrame, BadMetadataFrame, CompleteFrame, MetadataFrame(f)}
            \cup {ChunkFrame(f, i) : i \in 0..(TotalChunks(f) - 1)}

\* a frame arrives at a receiver whose peer may send values that make the
\* handler throw, at most MaxFaults of them per transfer
InjectMalformed ==
    /\ \E frame \in MalformedInbound, throws \in BOOLEAN :
          /\ WithinBounds(frame)
          /\ Receive(frame, throws)
          /\ faults' = IF IsMetadata(frame) /\ frame.totalChunks >= 0
                       THEN Invoked(events', "onError")
                       ELSE faults + Invoked(events', "onError")
          /\ faults' <= MaxFaults
    /\ UNCHANGED <<senderVars, delivered, soundEnabled, receivers, notified, peerVars>>

SpecMalformed == InitReceiver /\ [][InjectMalformed]_vars

\* the frames the listeners of the effect model are fed
EffectInbound ==
    {CompleteFrame}
        \cup {MetadataFrame(f) : f \in ReceivedFiles}
        \cup UNION {{ChunkFrame(f, i) : i \in 0..(TotalChunks(f) - 1)} : f \in ReceivedFiles}

\* the sound button: setSoundEnabled(!soundEnabled).  soundEnabled is a
\* dependency of the receiving effect, so the effect's cleanup runs
\* (receiverRef.current = null: no listener is removed) and then the effect
\* again, constructing a FileReceiver that registers one more 'data' listener
\* on the same connection.
ToggleSound ==
    /\ connection # NoConnection
    /\ Len(receivers) < MaxReceivers
    /\ soundEnabled' = ~soundEnabled
    /\ receivers' = Append(receivers, FreshReceiver)
    /\ UNCHANGED <<senderVars, delivered, receiverVars, notified, faults, peerVars>>

\* the connection emits 'data': every registered listener handles the frame
\* with its own FileReceiver (callbacks that do not throw)
DataEvent ==
    \E frame \in EffectInbound :
        LET after == [j \in 1..Len(receivers) |-> Handle(receivers[j], frame, FALSE)]
            calls == SelectSeq(after, LAMBDA r : Invoked(r.events, "onComplete") > 0)
        IN  /\ IsChunk(frame) =>
                  \A j \in 1..Len(receivers) : receivers[j].receivedChunks < MaxRecv
            /\ receivers' = [j \in 1..Len(receivers) |-> [after[j] EXCEPT !.events = <<>>]]
            /\ notified' = Len(calls)
            /\ lastFrame' = frame
            /\ UNCHANGED <<senderVars, delivered, soundEnabled, faults, peerVars, metadata, chunks,
                           receivedChunks, lastMeta, events, accepted, progressLog,
                           startCount, completions, prior>>

\* The receiving effect has run for an open connection: one FileReceiver.
InitEffect ==
    /\ connection = "conn"
    /\ tasks = [t \in Tasks |-> IdleTask(<<>>)]
    /\ files = <<>>
    /\ wire = <<>>
    /\ failures = 0
    /\ delivered = 0
    /\ soundEnabled = TRUE
    /\ receivers = <<FreshReceiver>>
    /\ notified = 0
    /\ faults = 0
    /\ PeerQuiet
    /\ ReceiverInit

SpecEffect == InitEffect /\ [][ToggleSound \/ DataEvent]_vars

\* One sendFiles invocation whose frames the channel carries to a FileReceiver.
InitTransfer ==
    /\ connection = "conn"
    /\ \E list \in Batches(Files, MaxBatch) :
         tasks = [t \in Tasks |-> IF t = 1 THEN IdleTask(list) ELSE IdleTask(<<>>)]
    /\ SenderInit
    /\ ReceiverInit

SpecTransfer == InitTransfer /\ [][SenderStep \/ Deliver]_vars

\* The hook after its mount effect has called initializePeer, with no transfer going on.
InitPeer ==
    /\ connection = NoConnection
    /\ tasks = [t \in Tasks |-> IdleTask(<<>>)]
    /\ files = <<>>
    /\ wire = <<>>
    /\ failures = 0
    /\ delivered = 0
    /\ soundEnabled = TRUE
    /\ receivers = <<>>
    /\ notified = 0
    /\ faults = 0
    /\ ReceiverInit
    /\ status = "initializing"
    /\ error = NoError
    /\ reconnectAttempts = 0
    /\ peer = 1
    /\ link = "connecting"
    /\ timers = 0
    /\ conns = [c \in Conns |-> NoConn]
    /\ lastEvent = "mount"

PeerStep ==
    \/ PeerOpen
    \/ PeerErrorUnavailableId
    \/ \E message \in Messages : PeerError(message)
    \/ PeerDisconnected
    \/ TimerFires
    \/ Retry
    \/ \E c \in Conns : ConnectToPeer(c)
    \/ \E c \in Conns : IncomingConnection(c)
    \/ \E c \in Conns : ConnOpen(c)
    \/ \E c \in Conns : ConnClose(c)
    \/ \E c \in Conns : ConnError(c)

SpecPeer == InitPeer /\ [][PeerStep]_vars

----------------------------------------------------------------------------
(* Properties of FileSender.send *)

\* the sends the model has started: task t, k-th file of its list
Sends == {tk \in Tasks \X (1..MaxBatch + 1) : tk[2] <= tasks[tk[1]].k}

FileOf(t, k) == tasks[t].fileList[k]

\* the frames send (t, k) has handed to the channel, in order
SentBy(t, k) == SelectSeq(wire, LAMBDA e : e.task = t /\ e.k = k)

\* send (t, k) has resolved: sendFiles is about to mark it, or has marked it, 'complete'
Resolved(t, k) ==
    \/ tasks[t].k = k /\ tasks[t].pc = "sent" /\ tasks[t].outcome = "resolved"
    \/ files[tasks[t].base + k].status = "complete"

\* n = ceil(S / C), stated without division
IsCeil(n, S, C) == n * C >= S /\ (n = 0 \/ (n - 1) * C < S)

\* the j-th frame of a transfer of n chunks is the one the protocol puts there
InPlace(e, j, n) ==
    IF j = 1 THEN e.frame.type = "metadata"
    ELSE IF j <= n + 1 THEN e.frame.type = "chunk" /\ e.frame.index = j - 2
    ELSE j = n + 2 /\ e.frame.type = "complete"

\* C1: the frames one send() hands to the channel are, in order, one Metadata
\* frame, the Chunk frames 0, 1, ..., totalChunks-1, one Complete frame; at
\* every moment they are a prefix of that sequence, and once send() has resolved
\* they are the whole sequence, now and ever after (nothing is sent after the
\* Complete frame, and send() does not resolve before it).
C1_SendOrder ==
    \A s \in Sends :
        LET sent == SentBy(s[1], s[2])
            f == FileOf(s[1], s[2])
        IN  \E n \in 0..(MaxChunks + 1) :
              /\ IsCeil(n, f.size, CHUNK_SIZE)
              /\ Len(sent) <= n + 2
              /\ \A j \in 1..Len(sent) : InPlace(sent[j], j, n)
              /\ Resolved(s[1], s[2]) => Len(sent) = n + 2

C1_Witness ==
    \E s \in Sends :
        /\ Resolved(s[1], s[2])
        /\ TotalChunks(FileOf(s[1], s[2])) >= 2
        /\ Len(SentBy(s[1], s[2])) = 4

ChunksOf(sent) == SelectSeq(sent, LAMBDA e : e.frame.type = "chunk")

RECURSIVE SumLengths(_)
SumLengths(seq) ==
    IF seq = <<>> THEN 0
    ELSE (seq[1].frame.data.hi - seq[1].frame.data.lo) + SumLengths(Tail(seq))

\* C2: a send() of a file of size S emits ceil(S/C) Chunk frames whose payload
\* lengths sum to S; every chunk but the last has length C and the last has
\* length S - C*(totalChunks-1); the Metadata frame carries fileSize = S and
\* totalChunks = ceil(S/C).
C2_Chunking ==
    \A s \in Sends :
        LET sent == SentBy(s[1], s[2])
            S == FileOf(s[1], s[2]).size
            cs == ChunksOf(sent)
        IN  \E n \in 0..(MaxChunks + 1) :
              /\ IsCeil(n, S, CHUNK_SIZE)
              /\ \A j \in 1..Len(sent) :
                    sent[j].frame.type = "metadata" =>
                        sent[j].frame.fileSize = S /\ sent[j].frame.totalChunks = n
              /\ \A j \in 1..Len(cs) :
                    LET c == cs[j].frame
                    IN  c.data.hi - c.data.lo =
                            IF c.index < n - 1 THEN CHUNK_SIZE
                            ELSE S - CHUNK_SIZE * (n - 1)
              /\ Resolved(s[1], s[2]) => Len(cs) = n /\ SumLengths(cs) = S

C2_Witness ==
    \E s \in Sends :
        /\ Resolved(s[1], s[2])
        /\ FileOf(s[1], s[2]).size = CHUNK_SIZE + 1
        /\ Len(ChunksOf(SentBy(s[1], s[2]))) = 2

\* v = Math.round((a / n) * 100), stated without division (n > 0)
IsRoundPct(v, a, n) == 2 * n * v <= 200 * a + n /\ 200 * a + n < 2 * n * (v + 1)

\* the send of task t that is running or has just settled
Current(t) == tasks[t].pc \in {"read", "pace", "sent"}

\* onProgress of the current sender was invoked once per chunk handed to the
\* channel, with round(((i+1)/totalChunks)*100) for chunk i, and the values
\* never decrease
SenderProgressOk(t) ==
    LET tk == tasks[t]
        n == TotalChunks(tk.fileList[tk.k])
    IN  /\ Len(tk.sprog) = Len(ChunksOf(SentBy(t, tk.k)))
        /\ \A j \in 1..Len(tk.sprog) : IsRoundPct(tk.sprog[j], j, n)
        /\ \A j \in 1..(Len(tk.sprog) - 1) : tk.sprog[j] <= tk.sprog[j + 1]

\* C6 as stated: ... and the final value is 100 for every file size, a size
\* that gives no chunk included.
C6_Original ==
    \A t \in Tasks :
        Current(t) =>
            /\ SenderProgressOk(t)
            /\ tasks[t].pc = "sent" /\ tasks[t].outcome = "resolved" =>
                  /\ Len(tasks[t].sprog) > 0
                  /\ tasks[t].sprog[Len(tasks[t].sprog)] = 100

\* C6 (amended): for every send() that resolves, onProgress is invoked once per
\* chunk emitted, right after the chunk is handed to the channel, with
\* round(((i+1)/totalChunks)*100); the values never decrease; the final value
\* is 100 when the file has at least one chunk, and onProgress is not invoked
\* at all for a file of 0 bytes.
C6_SenderProgress ==
    \A t \in Tasks :
        Current(t) =>
            /\ SenderProgressOk(t)
            /\ tasks[t].pc = "sent" /\ tasks[t].outcome = "resolved" =>
                  IF tasks[t].fileList[tasks[t].k].size = 0
                  THEN tasks[t].sprog = <<>>
                  ELSE /\ Len(tasks[t].sprog) > 0
                       /\ tasks[t].sprog[Len(tasks[t].sprog)] = 100

C6_Witness ==
    \E t \in Tasks :
        /\ tasks[t].pc = "sent" /\ tasks[t].outcome = "resolved"
        /\ tasks[t].sprog = <<50, 100>>

----------------------------------------------------------------------------
(* Properties of sendFiles *)

\* C5 as stated: frames of different transfers never interleave on the
\* channel: no frame of another send lies between two frames of one send.
C5_NoInterleaving ==
    \A a, b, c \in 1..Len(wire) :
        a < b /\ b < c /\ wire[a].task = wire[c].task /\ wire[a].k = wire[c].k
            => wire[b].task = wire[a].task /\ wire[b].k = wire[a].k

----------------------------------------------------------------------------
(* Properties of FileReceiver *)

\* the bytes of file f
FileBytes(f) == IF f.size = 0 THEN <<>> ELSE <<Slice(f, 0, f.size)>>

\* the data handler has just invoked onComplete
JustCompleted == Len(events) > 0 /\ events[1].cb = "onComplete"

\* the receiver's last callback was onComplete with the whole of file f, and
\* the receiver is Idle again
CompletedWith(f) ==
    /\ events = <<OnComplete([bytes |-> FileBytes(f), type |-> f.type], f.name, f.type)>>
    /\ completions = 1
    /\ ~Collecting
    /\ chunks = <<>>
    /\ receivedChunks = 0

\* the frames a sender emits for f's chunks, in index order
ChunkFramesOf(f) == [j \in 1..TotalChunks(f) |-> ChunkFrame(f, j - 1)]

\* C3: after a Metadata frame with totalChunks = N, the N chunks in index order
\* 0..N-1 and Complete, onComplete gets the concatenation of the chunk payloads
\* in index order: the bytes of the source file, of length fileSize, with the
\* fileName and fileType of the Metadata frame.
C3_RoundTrip ==
    \A f \in ReceivedFiles :
        /\ JustCompleted
        /\ lastMeta = MetadataFrame(f)
        /\ accepted = ChunkFramesOf(f)
        => /\ events[1].blob.bytes = FileBytes(f)
           /\ ByteLength(events[1].blob.bytes) = lastMeta.fileSize
           /\ events[1].blob.type = lastMeta.fileType
           /\ events[1].fileName = lastMeta.fileName
           /\ events[1].fileType = lastMeta.fileType

C3_Witness ==
    /\ JustCompleted
    /\ lastMeta = MetadataFrame(FileOfSize(MaxChunks * CHUNK_SIZE))
    /\ accepted = ChunkFramesOf(FileOfSize(MaxChunks * CHUNK_SIZE))
    /\ events[1].fileName = "a.txt"

\* the chunk frames stored since the last Metadata frame are its N chunks, each
\* index 0..N-1 once, in some order
IsPermutation(seq, n) ==
    /\ Len(seq) = n
    /\ \A i \in 0..(n - 1) : \E j \in 1..n : seq[j].index = i

Ascending(seq) ==
    [j \in 1..Len(seq) |-> seq[CHOOSE m \in 1..Len(seq) : seq[m].index = j - 1]]

RECURSIVE HandleAll(_, _)
HandleAll(st, frames) ==
    IF frames = <<>> THEN st
    ELSE HandleAll(Handle(st, Head(frames), FALSE), Tail(frames))

\* what a fresh receiver passes to onComplete when fed the Metadata frame, the
\* frames `seq` and Complete
Delivery(meta, seq) == HandleAll(FreshReceiver, <<meta>> \o seq \o <<CompleteFrame>>).events[1]

\* C4: whatever the order in which the N chunks of a transfer (each index once)
\* arrive between Metadata and Complete, onComplete gets the payload that
\* ascending-order delivery produces.
C4_Reordering ==
    JustCompleted /\ IsPermutation(accepted, lastMeta.totalChunks)
        => events[1] = Delivery(lastMeta, Ascending(accepted))

C4_Witness ==
    /\ JustCompleted
    /\ Len(accepted) >= 2
    /\ IsPermutation(accepted, lastMeta.totalChunks)
    /\ accepted[1].index > accepted[2].index
    /\ accepted[1].data.of = accepted[2].data.of

\* C7: within one transfer the values the receiver passes to onProgress are one
\* per Chunk frame accepted, the k-th equal to round(k/totalChunks*100), never
\* decreasing, and when the transfer's totalChunks >= 1 chunks have been
\* accepted the last value before Complete is 100.
C7_ReceiverProgress ==
    /\ Len(progressLog) = Len(accepted)
    /\ \A j \in 1..Len(progressLog) :
          IF lastMeta.totalChunks > 0
          THEN IsRoundPct(progressLog[j], j, lastMeta.totalChunks)
          ELSE progressLog[j] = Infinity
    /\ \A j \in 1..(Len(progressLog) - 1) : progressLog[j] <= progressLog[j + 1]
    /\ JustCompleted /\ lastMeta.totalChunks >= 1
          /\ Len(accepted) = lastMeta.totalChunks
          => progressLog[Len(progressLog)] = 100

C7_Witness ==
    /\ JustCompleted
    /\ lastMeta.totalChunks = 2
    /\ progressLog = <<50, 100>>

\* C8 as stated: every value the receiver passes to onProgress lies in 0..100.
C8_ProgressInRange ==
    \A j \in 1..Len(progressLog) : progressLog[j] \in 0..100

\* C10 as stated: each Metadata frame leads to at most one onComplete,
\* onComplete is invoked only on a Complete frame received while Collecting,
\* and a Complete frame received while Idle invokes no callback, also when a
\* callback throws.
C10_CompleteOnce ==
    [][/\ completions' <= 1
       /\ Invoked(events', "onComplete") > 0
             => lastFrame' = CompleteFrame /\ metadata # NoMetadata
       /\ metadata = NoMetadata /\ lastFrame' = CompleteFrame => events' = <<>>]_vars

\* C9: a send() of a 0-byte file hands the channel a Metadata frame with
\* totalChunks = 0 and, right after it, a Complete frame, and no Chunk frame;
\* a receiver that gets these two frames invokes onStart, then onComplete with
\* an empty payload, and never onProgress.
C9_ZeroByteFile ==
    /\ \A s \in Sends :
          FileOf(s[1], s[2]).size = 0 /\ Resolved(s[1], s[2]) =>
              \E a \in 1..(Len(wire) - 1) :
                  /\ wire[a] = Tagged(MetadataFrame(FileOf(s[1], s[2])), s[1], s[2])
                  /\ wire[a].frame.totalChunks = 0
                  /\ wire[a + 1] = Tagged(CompleteFrame, s[1], s[2])
                  /\ Len(SentBy(s[1], s[2])) = 2
    /\ /\ delivered >= 2
       /\ wire[delivered].frame = CompleteFrame
       /\ wire[delivered - 1].frame.type = "metadata"
       /\ wire[delivered - 1].frame.fileSize = 0
       => /\ events = <<OnComplete([bytes |-> <<>>, type |-> lastMeta.fileType],
                                   wire[delivered - 1].frame.fileName,
                                   wire[delivered - 1].frame.fileType)>>
          /\ startCount = 1
          /\ completions = 1
          /\ progressLog = <<>>
          /\ metadata = NoMetadata

C9_Witness ==
    /\ delivered = 2
    /\ wire[1].frame.type = "metadata" /\ wire[1].frame.fileSize = 0
    /\ wire[2].frame = CompleteFrame
    /\ JustCompleted

C12_CompleteResets ==
    lastFrame = CompleteFrame /\ prior.collecting =>
        /\ Invoked(events, "onComplete") = 1
        /\ metadata = NoMetadata
        /\ chunks = <<>>
        /\ receivedChunks = 0

\* C13: a Chunk frame handled while the receiver is Idle invokes no callback
\* and leaves metadata, chunk container and received-count as they were.
C13_ChunkWhileIdle ==
    [][~Collecting /\ IsChunk(lastFrame') =>
          /\ events' = <<>>
          /\ UNCHANGED <<metadata, chunks, receivedChunks>>]_vars

\* a Chunk frame ignored after a transfer had completed
C13_Witness ==
    /\ IsChunk(lastFrame)
    /\ ~prior.collecting
    /\ events = <<>>
    /\ ~Collecting
    /\ completions = 1

\* C14: a Metadata frame handled while the receiver is Collecting makes the
\* session that of the new frame, with an all-empty container of the new
\* totalChunks slots and received-count 0, and invokes onStart and nothing
\* else but the report of an exception of onStart itself; what onComplete
\* gets later is what a fresh receiver delivers for the frames that came
\* after that Metadata frame.
C14_MetadataOverwrites ==
    [][/\ Collecting /\ IsMetadata(lastFrame') =>
             /\ metadata' = lastFrame'
             /\ chunks' = NewArray(lastFrame'.totalChunks)
             /\ receivedChunks' = 0
             /\ events' \in {<<OnStart>>, <<OnStart, OnError>>}
       /\ JustCompleted' => events'[1] = Delivery(lastMeta', accepted')]_vars

\* a transfer with chunks stored is abandoned for one of another size
C14_Witness ==
    /\ IsMetadata(lastFrame)
    /\ prior.collecting
    /\ prior.received >= 1
    /\ lastFrame.totalChunks = MaxChunks
    /\ chunks = <<Hole, Hole>>
    /\ receivedChunks = 0
    /\ events = <<OnStart>>

\* the inbound values whose handling throws before any callback is reached
Malformed == {NullFrame, BadMetadataFrame}

\* C15 as stated: a malformed message makes the handler invoke onError exactly
\* once and nothing else, and leaves metadata, chunk container and
\* received-count exactly as they were before the frame.
C15_ErrorLeavesState ==
    [][lastFrame' \in Malformed =>
          /\ events' = <<OnError>>
          /\ UNCHANGED <<metadata, chunks, receivedChunks>>]_vars

\* C16 as stated: after a frame whose handling reported an error the receiver
\* is Idle with its session empty.
C16_Original ==
    Invoked(events, "onError") > 0 =>
        metadata = NoMetadata /\ chunks = <<>> /\ receivedChunks = 0

\* C16: the error path resets nothing.  A frame handled with an error leaves
\* a Collecting receiver Collecting; a value that cannot be read as a frame
\* invokes onError alone and leaves metadata, chunk container and
\* received-count as they were, Idle or Collecting; and a well-formed Metadata
\* frame, whatever came before, puts its own fresh session in place.
C16_ErrorKeepsSession ==
    [][/\ Collecting /\ Invoked(events', "onError") > 0 => Collecting'
       /\ lastFrame' = NullFrame =>
             /\ events' = <<OnError>>
             /\ UNCHANGED <<metadata, chunks, receivedChunks>>
       /\ IsMetadata(lastFrame') /\ lastFrame'.totalChunks >= 0 =>
             /\ metadata' = lastFrame'
             /\ chunks' = NewArray(lastFrame'.totalChunks)
             /\ receivedChunks' = 0
             /\ events'[1] = OnStart]_vars

\* an unreadable value arrives in the middle of a transfer and the session stays
C16_Witness ==
    /\ lastFrame = NullFrame
    /\ events = <<OnError>>
    /\ prior.collecting
    /\ Collecting
    /\ receivedChunks = 1
    /\ chunks[1] # Hole

\* C17 as stated: a value whose handling throws invokes onError exactly once;
\* a transfer in which one such value arrived, once all its chunks (each index
\* once) and Complete have come, hands onComplete what an undisturbed receiver
\* hands it: the full payload under the transfer's name and type; and so does
\* a transfer begun by a later Metadata frame.
C17_ErrorIsolation ==
    /\ lastFrame \in Malformed => events = <<OnError>>
    /\ JustCompleted /\ faults = 1 /\ lastMeta # NoMetadata
          /\ IsPermutation(accepted, lastMeta.totalChunks)
          => events[1] = Delivery(lastMeta, accepted)
    /\ JustCompleted /\ faults = 0 /\ lastMeta # NoMetadata
          /\ IsPermutation(accepted, lastMeta.totalChunks)
          => events[1] = Delivery(lastMeta, accepted)

\* send (t, k) has rejected: sendFiles is about to mark it, or has marked it, 'error'
Rejected(t, k) ==
    \/ tasks[t].k = k /\ tasks[t].pc = "sent" /\ tasks[t].outcome = "rejected"
    \/ files[tasks[t].base + k].status = "error"

\* C18: every connection.send that throws makes the send() it belongs to
\* reject, whichever frame it was for; a send() that has rejected stays
\* rejected and never resolves, the frames it handed to the channel are a
\* proper prefix of the transfer without a Complete frame and never grow again
\* (nothing further is sent, nothing is sent twice), and onProgress has been
\* invoked once per Chunk frame handed over, so not for a chunk whose send
\* failed.
C18_RejectedSendStops ==
    [][/\ Cardinality({s \in Sends : Rejected(s[1], s[2])}) = failures
       /\ \A s \in Sends :
             Rejected(s[1], s[2]) =>
                LET sent == SentBy(s[1], s[2])
                    n == TotalChunks(FileOf(s[1], s[2]))
                IN  /\ ~Resolved(s[1], s[2])
                    /\ Len(sent) < n + 2
                    /\ \A j \in 1..Len(sent) : InPlace(sent[j], j, n)
                    /\ tasks[s[1]].k = s[2] =>
                          Len(tasks[s[1]].sprog) = Len(ChunksOf(sent))
                    /\ Rejected(s[1], s[2])'
                    /\ SentBy(s[1], s[2])' = sent]_vars

\* the send of a two-chunk file was rejected at its second chunk, and the
\* next file of the list has been sent in full since
C18_Witness ==
    \E s \in Sends :
        /\ files[tasks[s[1]].base + s[2]].status = "error"
        /\ TotalChunks(FileOf(s[1], s[2])) = 2
        /\ Len(SentBy(s[1], s[2])) = 2
        /\ tasks[s[1]].pc = "done"
        /\ tasks[s[1]].k = s[2] + 1
        /\ Resolved(s[1], s[2] + 1)

\* C19 as stated: at every moment at most one FileReceiver 'data' listener is
\* registered on the open connection, and a Complete frame leads to at most
\* one onComplete notification, also after the receiving effect has re-run
\* for a change of the sound setting.
C19_SoleListener ==
    /\ Len(receivers) <= 1
    /\ notified <= 1

\* the payload of the last frame of seq that carries index idx, if any
LastWrite(seq, idx) ==
    LET hits == {m \in 1..Len(seq) : seq[m].index = idx}
    IN  IF hits = {} THEN Hole
        ELSE seq[CHOOSE m \in hits : \A o \in hits : o <= m].data

\* the container after the Chunk frames seq were stored into new Array(n)
LastWrites(n, seq) ==
    LET top == CHOOSE m \in 0..(n + Len(seq) + MaxChunks) :
                  /\ m >= n
                  /\ \A j \in 1..Len(seq) : seq[j].index < m
                  /\ m = n \/ \E j \in 1..Len(seq) : seq[j].index = m - 1
    IN  [j \in 1..top |-> LastWrite(seq, j - 1)]

\* C20: while Collecting, received-count is the number of Chunk frames handled
\* since the last Metadata frame, whatever their indices, and every slot of
\* the container holds the payload of the most recent of them with that index
\* (an index never seen is an empty slot); the payload handed to onComplete is
\* built from those most recent payloads.
C20_LastWriteWins ==
    /\ Collecting =>
          /\ receivedChunks = Len(accepted)
          /\ chunks = LastWrites(metadata.totalChunks, accepted)
    /\ JustCompleted =>
          events[1].blob = Blob(LastWrites(lastMeta.totalChunks, accepted),
                                lastMeta.fileType)

\* three Chunk frames, the first and the third for the same index with
\* different payloads: the count is 3 and the slot holds the third
C20_Witness ==
    /\ Collecting
    /\ receivedChunks = 3
    /\ accepted[1].index = accepted[3].index
    /\ accepted[1].data # accepted[3].data
    /\ accepted[2].index # accepted[1].index
    /\ chunks[accepted[3].index + 1] = accepted[3].data

\* C21 as stated: a Complete frame that finds the receiver Collecting, with
\* every slot filled or not and whatever the received-count, invokes
\* onComplete and no other callback (no onError), and leaves the receiver Idle.
C21_CompleteDespiteGaps ==
    lastFrame = CompleteFrame /\ prior.collecting =>
        /\ Len(events) = 1
        /\ events[1].cb = "onComplete"
        /\ ~Collecting

\* C22: with one send() of a file over a channel that accepts every send and
\* delivers in send order, and fair scheduling, the receiver is eventually and
\* from then on Idle after exactly one onComplete, which carried the bytes,
\* the name and the MIME type of the file; at no moment has onComplete been
\* invoked twice.
C22_EventuallyComplete ==
    /\ <>[](CompletedWith(tasks[1].fileList[1]) /\ delivered = Len(wire))
    /\ [](completions <= 1)

C22_Witness ==
    /\ CompletedWith(FileOfSize(MaxChunks * CHUNK_SIZE))
    /\ tasks[1].pc = "done"
    /\ delivered = MaxChunks + 2

\* C23: the receiver's fields change and its callbacks run only in the step
\* that handles an inbound frame, the next one of the channel; in a step in
\* which no frame arrives a Collecting receiver stays Collecting and no
\* callback is invoked, however long that lasts.
C23_NoTimeout ==
    [][/\ <<metadata, chunks, receivedChunks, events>>' #
              <<metadata, chunks, receivedChunks, events>>
          => delivered' = delivered + 1 /\ lastFrame' = wire[delivered + 1].frame
       /\ delivered' = delivered /\ Collecting
          => Collecting' /\ UNCHANGED <<metadata, chunks, receivedChunks, events, completions>>]_vars

\* the sender gave up after a rejected send, every frame it sent has been
\* handled, and the receiver is left Collecting without onComplete or onError
C23_Witness ==
    /\ tasks[1].pc = "done"
    /\ failures = 1
    /\ delivered = Len(wire)
    /\ Collecting
    /\ receivedChunks = 1
    /\ completions = 0
    /\ Invoked(events, "onError") = 0

\* the status sendFiles shows for the k-th file of task t
StatusOf(t, k) == files[tasks[t].base + k].status

\* C24: in one sendFiles call the frames of the files reach the channel in
\* list order, file by file; file k+1 is started only when the send of file k
\* has settled and the file is marked 'complete' (all its frames sent) or
\* 'error' (Complete frame not sent); files not started yet are 'pending';
\* as many files are marked 'error' as sends were rejected; and when
\* sendFiles returns every file of the list has had its send.
C24_BatchInOrder ==
    \A t \in Tasks :
        LET tk == tasks[t]
            mine == SelectSeq(wire, LAMBDA e : e.task = t)
        IN  tk.pc # "idle" /\ connection # NoConnection =>
              /\ \A a, b \in 1..Len(mine) : a < b => mine[a].k <= mine[b].k
              /\ \A k \in 1..Len(tk.fileList) :
                    LET n == TotalChunks(tk.fileList[k])
                    IN  /\ k < tk.k \/ tk.pc = "done" =>
                              \/ StatusOf(t, k) = "complete" /\ Len(SentBy(t, k)) = n + 2
                              \/ StatusOf(t, k) = "error" /\ Len(SentBy(t, k)) < n + 2
                        /\ k = tk.k /\ tk.pc # "done" => StatusOf(t, k) = "sending"
                        /\ k > tk.k => StatusOf(t, k) = "pending" /\ SentBy(t, k) = <<>>
              /\ Cardinality({k \in 1..Len(tk.fileList) : StatusOf(t, k) = "error"})
                    = failures - (IF tk.pc = "sent" /\ tk.outcome = "rejected" THEN 1 ELSE 0)
              /\ tk.pc = "done" => tk.k = Len(tk.fileList)

\* the first file's Metadata send was rejected, the second file went out whole
C24_Witness ==
    /\ connection # NoConnection
    /\ tasks[1].pc = "done"
    /\ Len(tasks[1].fileList) = 2
    /\ StatusOf(1, 1) = "error"
    /\ SentBy(1, 1) = <<>>
    /\ StatusOf(1, 2) = "complete"
    /\ Len(SentBy(1, 2)) = MaxChunks + 2

\* task t is inside send(), suspended at one of its awaits
Suspended(t) == tasks[t].pc \in {"read", "pace"}

\* C25: send() is suspended only at the byte read of a chunk and at the 1 ms
\* pause; the pause follows the hand-over of chunk i exactly when i mod 10 = 0.
\* A chunk's hand-over and its onProgress are never separated by a
\* suspension (at every suspension as many progress values as Chunk frames),
\* and once the last chunk's pause, if it has one, is over, Complete is handed
\* over without a further suspension: all chunks out and Complete not yet is
\* seen only during that pause.
C25_Pacing ==
    [][\A t \in Tasks :
          LET tk == tasks[t]
              sent == SentBy(t, tk.k)
              n == TotalChunks(tk.fileList[tk.k])
          IN  /\ tk.pc = "read" /\ (tasks'[t].pc # "read" \/ tasks'[t].i # tk.i) =>
                    \/ tasks'[t].outcome = "rejected"
                    \/ (tasks'[t].pc = "pace") = (tk.i % 10 = 0)
              /\ Suspended(t) =>
                    /\ Len(tk.sprog) = Len(ChunksOf(sent))
                    /\ tk.pc = "read" => Len(sent) = tk.i + 1 /\ tk.i < n
                    /\ tk.pc = "pace" =>
                          Len(sent) = tk.i + 2 /\ tk.i % 10 = 0 /\ tk.i < n
                    /\ Len(sent) = n + 1 /\ n > 0 => tk.pc = "pace" /\ tk.i = n - 1]_vars

\* the sender is in its second pause, after chunk 10, the last of the file
C25_Witness ==
    \E t \in Tasks :
        /\ tasks[t].pc = "pace"
        /\ tasks[t].i = 10
        /\ TotalChunks(tasks[t].fileList[1]) = 11
        /\ Len(SentBy(t, 1)) = 12
        /\ Len(tasks[t].sprog) = 11

\* C26: a well-formed message of a type other than 'metadata', 'chunk' and
\* 'complete' invokes no callback, onError included, and leaves metadata,
\* chunk container and received-count as they were, in Idle and in Collecting.
C26_OtherTypeIgnored ==
    [][lastFrame' = OtherFrame =>
          /\ events' = <<>>
          /\ UNCHANGED <<metadata, chunks, receivedChunks>>]_vars

\* a message of another kind arrives in the middle of a transfer
C26_Witness ==
    /\ lastFrame = OtherFrame
    /\ prior.collecting
    /\ Collecting
    /\ receivedChunks = 1
    /\ chunks # <<Hole, Hole>>
    /\ events = <<>>

\* C27 as stated: in every state of a FileReceiver, with metadata absent
\* received-count is 0 and the chunk container is empty, and with metadata
\* present received-count is the number of Chunk frames stored since the last
\* Metadata frame.
C27_SessionInvariant ==
    /\ metadata = NoMetadata => receivedChunks = 0 /\ chunks = <<>>
    /\ metadata # NoMetadata => receivedChunks = Len(accepted)

----------------------------------------------------------------------------
(* Properties of usePeer *)

\* C28: the reconnect counter never exceeds 3; a peer 'error' (other than
\* 'unavailable-id') or 'disconnected' event met with the counter below 3 adds
\* one to it and sets status 'reconnecting'; a peer 'error' met with the counter
\* at 3 sets status 'error' with a message and neither schedules nor performs a
\* re-initialization; the counter goes down only to 0, and only on a peer 'open'
\* event or a retry().
C28_ReconnectCounter ==
    [][/\ reconnectAttempts' <= 3
       /\ (lastEvent' \in {"error", "disconnected"} /\ reconnectAttempts < 3)
             => (reconnectAttempts' = reconnectAttempts + 1 /\ status' = "reconnecting")
       /\ (lastEvent' = "error" /\ reconnectAttempts = 3)
             => /\ status' = "error"
                /\ error' # NoError
                /\ timers' = timers
                /\ peer' = peer
                /\ reconnectAttempts' = 3
       /\ reconnectAttempts' < reconnectAttempts
             => (reconnectAttempts' = 0 /\ lastEvent' \in {"open", "retry"})]_vars

\* a peer 'error' has been met with the counter at 3
C28_Witness ==
    /\ lastEvent = "error"
    /\ reconnectAttempts = 3
    /\ status = "error"
    /\ error = "Connection failed"

\* C29: the hook reconnects by itself when the peer drops: it is never left at
\* status 'ready' or 'connected' while the peer is disconnected and neither a
\* reconnect nor a re-initialization is under way or scheduled.
C29_AutoReconnect ==
    (link = "disconnected" /\ timers = 0) => status \notin {"ready", "connected"}

\* C30: whenever status is 'connected' the exposed connection is non-null, and
\* the exposed connection is non-null whenever some data connection of the
\* current peer is open.
C30_ConnectionHeld ==
    /\ status = "connected" => connection # NoConnection
    /\ (\E c \in Conns : conns[c].state = "open" /\ conns[c].peer = peer)
          => connection # NoConnection

====
